---- MODULE Spec2Model ----
(***************************************************************************)
(* Model of the qnet_ll_sim core: the Network event handler (network.rs),  *)
(* the Event ordering (event.rs) and the PhysicalTopology fidelity oracle   *)
(* (physical_topology.rs), driven by the event engine, the EPR register     *)
(* and the Node/NIC records, which are modelled from the specification.     *)
(***************************************************************************)
EXTENDS Integers, Sequences, FiniteSets, TLC

\* ------------------------------------------------------------------ bounds

\* Number of nodes of the logical topology (compact ids 0..NumNodes-1).
NumNodes == 6
\* Largest exponential sample, in half-nanoseconds (so a sample of 1 is
\* 0.5 ns and truncates to a delay of 0 ns).
MaxSample == 2
\* The run's until_ns; ExperimentEnd is scheduled at that time.
UntilNs == 1
\* Cap on the number of EprGenerated events handled in one run.
MaxGenerated == 2
\* Period of the RNG streams in the runs that are not cut short.
RngPeriod == 2
\* Largest node id a query of the physical topology names; the queried
\* graphs have the nodes 0..3, so the larger ids are unknown nodes.
MaxNodeId == 4

\* --------------------------------------------------------------- helpers

Range(s) == {s[i] : i \in 1..Len(s)}

RemoveAt(s, i) == SubSeq(s, 1, i - 1) \o SubSeq(s, i + 1, Len(s))

Permutations_(S) == {p \in [1..Cardinality(S) -> S] : \A x \in S : \E i \in DOMAIN p : p[i] = x}

RECURSIVE Flatten(_)
Flatten(ss) == IF ss = <<>> THEN <<>> ELSE Head(ss) \o Flatten(Tail(ss))

\* ------------------------------------------------------ physical topology

\* The graph of the run, the one of test_physical_topology_fidelities:
\* node 0 is a satellite linked to the ground stations 1 and 2 and to the
\* satellites 3 and 4; satellite 5 is linked to 4 only.  Every node has
\* the default weight's single transmitter.
TestTopology ==
    [node_type    |-> (0 :> "SAT" @@ 1 :> "OGS" @@ 2 :> "OGS" @@
                       3 :> "SAT" @@ 4 :> "SAT" @@ 5 :> "SAT"),
     transmitters |-> [n \in 0..5 |-> 1],
     edges        |-> {{0, 1}, {0, 2}, {0, 3}, {0, 4}, {4, 5}},
     distance     |-> [e \in {{0, 1}, {0, 2}, {0, 3}, {0, 4}, {4, 5}} |-> 1],
     paths        |-> <<>>]

node_count(graph) == Cardinality(DOMAIN graph.node_type)

\* valid_node!: the index is below node_count (a weight then exists).
valid_node(node, graph) == node < node_count(graph)

find_edge(graph, a, b) == {a, b} \in graph.edges

Ok(v) == [ok |-> TRUE, val |-> v]
Err(e) == [ok |-> FALSE, val |-> e]

\* The two-receiver fidelity picked by the type of the first receiver alone.
fidelity_TypeOfFirstReceiver(graph, tx, u, v) ==
    IF ~valid_node(tx, graph) \/ ~valid_node(u, graph) \/ ~valid_node(v, graph)
    THEN Err("UnknownNode")
    ELSE IF ~(graph.transmitters[tx] > 0) THEN Err("NotATransmitter")
    ELSE IF ~(u # v) THEN Err("SameReceiver")
    ELSE IF graph.node_type[tx] # "SAT" THEN Err("NotASatellite")
    ELSE IF tx = u THEN
        IF ~find_edge(graph, tx, v) THEN Err("MissingEdge")
        ELSE IF graph.node_type[v] = "SAT" THEN Ok("f_o") ELSE Ok("f_g")
    ELSE IF tx = v THEN
        IF ~find_edge(graph, tx, u) THEN Err("MissingEdge")
        ELSE IF graph.node_type[u] = "SAT" THEN Ok("f_o") ELSE Ok("f_g")
    ELSE
        IF ~find_edge(graph, tx, u) THEN Err("MissingEdge")
        ELSE IF ~find_edge(graph, tx, v) THEN Err("MissingEdge")
        ELSE IF graph.node_type[u] = "SAT" THEN Ok("f_oo") ELSE Ok("f_gg")

\* The transmitter's node type is not looked at.
fidelity_AnyTransmitter(graph, tx, u, v) ==
    IF ~valid_node(tx, graph) \/ ~valid_node(u, graph) \/ ~valid_node(v, graph)
    THEN Err("UnknownNode")
    ELSE IF ~(graph.transmitters[tx] > 0) THEN Err("NotATransmitter")
    ELSE IF ~(u # v) THEN Err("SameReceiver")
    ELSE IF tx = u THEN
        IF ~find_edge(graph, tx, v) THEN Err("MissingEdge")
        ELSE IF graph.node_type[v] = "SAT" THEN Ok("f_o") ELSE Ok("f_g")
    ELSE IF tx = v THEN
        IF ~find_edge(graph, tx, u) THEN Err("MissingEdge")
        ELSE IF graph.node_type[u] = "SAT" THEN Ok("f_o") ELSE Ok("f_g")
    ELSE
        IF ~find_edge(graph, tx, u) THEN Err("MissingEdge")
        ELSE IF ~find_edge(graph, tx, v) THEN Err("MissingEdge")
        ELSE IF graph.node_type[u] = "SAT"
             THEN (IF graph.node_type[v] = "SAT" THEN Ok("f_oo") ELSE Ok("f_og"))
             ELSE (IF graph.node_type[v] = "SAT" THEN Ok("f_og") ELSE Ok("f_gg"))

\* PhysicalTopology::fidelity, with the five static fidelities kept symbolic.
fidelity(graph, tx, u, v) ==
    IF ~valid_node(tx, graph) \/ ~valid_node(u, graph) \/ ~valid_node(v, graph)
    THEN Err("UnknownNode")
    ELSE IF ~(graph.transmitters[tx] > 0) THEN Err("NotATransmitter")
    ELSE IF ~(u # v) THEN Err("SameReceiver")
    ELSE IF graph.node_type[tx] # "SAT" THEN Err("NotASatellite")
    ELSE IF tx = u THEN
        IF ~find_edge(graph, tx, v) THEN Err("MissingEdge")
        ELSE IF graph.node_type[v] = "SAT" THEN Ok("f_o") ELSE Ok("f_g")
    ELSE IF tx = v THEN
        IF ~find_edge(graph, tx, u) THEN Err("MissingEdge")
        ELSE IF graph.node_type[u] = "SAT" THEN Ok("f_o") ELSE Ok("f_g")
    ELSE
        IF ~find_edge(graph, tx, u) THEN Err("MissingEdge")
        ELSE IF ~find_edge(graph, tx, v) THEN Err("MissingEdge")
        ELSE IF graph.node_type[u] = "SAT"
             THEN (IF graph.node_type[v] = "SAT" THEN Ok("f_oo") ELSE Ok("f_og"))
             ELSE (IF graph.node_type[v] = "SAT" THEN Ok("f_og") ELSE Ok("f_gg"))

\* ---------------------------------------------------------------- distance

\* f64 distances are counted in whole units, which f64 adds exactly; a
\* negative number stands for the infinite distance and for no predecessor.
IsInfinite(d) == d < 0

\* a + w on distances, infinity absorbing.
Plus(d, w) == IF IsInfinite(d) THEN d ELSE d + w

\* a < b on distances.
LessThan(a, b) == ~IsInfinite(a) /\ (IsInfinite(b) \/ a < b)

\* One pass over the edges of every node, in node order, relaxing in place.
\* The k-th pair of the pass is (i, j) with k - 1 = i * node_count + j.
RECURSIVE RelaxEdges(_, _, _)
RelaxEdges(graph, st, k) ==
    LET n == node_count(graph)
        i == (k - 1) \div n
        j == (k - 1) % n
    IN  IF k > n * n THEN st
        ELSE IF /\ find_edge(graph, i, j)
                /\ LessThan(Plus(st.distances[i], graph.distance[{i, j}]),
                            st.distances[j])
        THEN RelaxEdges(graph,
                 [distances    |-> [st.distances EXCEPT
                                      ![j] = Plus(st.distances[i],
                                                  graph.distance[{i, j}])],
                  predecessors |-> [st.predecessors EXCEPT ![j] = i],
                  did_update   |-> TRUE],
                 k + 1)
        ELSE RelaxEdges(graph, st, k + 1)

\* The relaxation rounds: at most node_count - 1, stopping at the first
\* round that updates nothing.
RECURSIVE RelaxRounds(_, _, _)
RelaxRounds(graph, st, round) ==
    IF round >= node_count(graph) THEN st
    ELSE LET s2 == RelaxEdges(graph, [st EXCEPT !.did_update = FALSE], 1)
         IN  IF ~s2.did_update THEN s2 ELSE RelaxRounds(graph, s2, round + 1)

\* A single relaxation round, whatever it leaves to relax.
bellman_ford_SingleRound(graph, source) ==
    LET ids == DOMAIN graph.node_type
        st  == RelaxEdges(graph,
                   [distances    |-> [n \in ids |-> IF n = source THEN 0 ELSE -1],
                    predecessors |-> [n \in ids |-> -1],
                    did_update   |-> FALSE],
                   1)
    IN  Ok([distances |-> st.distances, predecessors |-> st.predecessors])

\* petgraph::algo::bellman_ford: the source starts at distance zero with no
\* predecessor, every other node at infinity with no predecessor.
bellman_ford(graph, source) ==
    LET ids == DOMAIN graph.node_type
        st  == RelaxRounds(graph,
                   [distances    |-> [n \in ids |-> IF n = source THEN 0 ELSE -1],
                    predecessors |-> [n \in ids |-> -1],
                    did_update   |-> FALSE],
                   1)
    IN  IF \E i \in ids, j \in ids :
              /\ find_edge(graph, i, j)
              /\ LessThan(Plus(st.distances[i], graph.distance[{i, j}]),
                          st.distances[j])
        THEN Err("NegativeCycle")
        ELSE Ok([distances |-> st.distances, predecessors |-> st.predecessors])

\* The unknown target is rejected only once the source's paths are cached.
distance_ValidateTargetLate(pt, u, v) ==
    IF ~valid_node(u, pt) THEN [result |-> Err("UnknownNode"), paths |-> pt.paths]
    ELSE LET bf    == bellman_ford(pt, u)
             paths == IF u \in DOMAIN pt.paths \/ ~bf.ok THEN pt.paths
                      ELSE (u :> bf.val) @@ pt.paths
         IN  IF ~valid_node(v, pt) THEN [result |-> Err("UnknownNode"), paths |-> paths]
             ELSE IF u \notin DOMAIN paths
                  THEN [result |-> Err("NegativeCycle"), paths |-> paths]
             ELSE IF paths[u].predecessors[v] >= 0
                  THEN [result |-> Ok(paths[u].distances[v]), paths |-> paths]
             ELSE [result |-> Err("NoConnection"), paths |-> paths]

\* The paths are computed at every call and never kept.
distance_Uncached(pt, u, v) ==
    IF ~valid_node(u, pt) \/ ~valid_node(v, pt)
    THEN [result |-> Err("UnknownNode"), paths |-> pt.paths]
    ELSE LET bf == bellman_ford(pt, u)
         IN  IF ~bf.ok THEN [result |-> Err("NegativeCycle"), paths |-> pt.paths]
             ELSE IF bf.val.predecessors[v] >= 0
                  THEN [result |-> Ok(bf.val.distances[v]), paths |-> pt.paths]
             ELSE [result |-> Err("NoConnection"), paths |-> pt.paths]

\* PhysicalTopology::distance: the result and the cache the call leaves.
RECURSIVE distance(_, _, _)
distance(pt, u, v) ==
    IF ~valid_node(u, pt) \/ ~valid_node(v, pt)
    THEN [result |-> Err("UnknownNode"), paths |-> pt.paths]
    ELSE IF u \in DOMAIN pt.paths
    THEN IF pt.paths[u].predecessors[v] >= 0
         THEN [result |-> Ok(pt.paths[u].distances[v]), paths |-> pt.paths]
         ELSE [result |-> Err("NoConnection"), paths |-> pt.paths]
    ELSE LET bf == bellman_ford(pt, u)
         IN  IF bf.ok
             THEN distance([pt EXCEPT !.paths = (u :> bf.val) @@ pt.paths], u, v)
             ELSE [result |-> Err("NegativeCycle"), paths |-> pt.paths]

\* ------------------------------------------------------------------ events

\* utils::to_nanoseconds: seconds * 1e9 truncated toward zero.  Real-valued
\* times are counted in half-nanoseconds, so the truncation is visible.
to_nanoseconds(time) == time \div 2

EprGeneratedData(tx, master, slave) ==
    [kind |-> "EprGenerated", tx_node_id |-> tx,
     master_node_id |-> master, slave_node_id |-> slave]

EprNotifiedData(this, peer, role, pair_id) ==
    [kind |-> "EprNotified", this_node_id |-> this, peer_node_id |-> peer,
     role |-> role, epr_pair_id |-> pair_id]

ExperimentEnd == [kind |-> "ExperimentEnd"]

WarmupPeriodEnd == [kind |-> "WarmupPeriodEnd"]

Progress(percent) == [kind |-> "Progress", percent |-> percent]

\* Event::new
EventNew(time, event_type) ==
    [time |-> to_nanoseconds(time), event_type |-> event_type]

\* Event::advance
advance(event, advance_time) ==
    [event EXCEPT !.time = event.time + advance_time]

\* The comparison of the times taken the natural way round, not reversed.
cmp_NotReversed(self, other) ==
    IF self.time < other.time THEN "Less"
    ELSE IF self.time = other.time THEN "Equal"
    ELSE "Greater"

\* impl PartialOrd / Ord for Event: the comparison of the times, reversed.
cmp(self, other) ==
    IF other.time < self.time THEN "Less"
    ELSE IF other.time = self.time THEN "Equal"
    ELSE "Greater"

\* The positions a pop of the queue may return: those holding a greatest
\* element under cmp.  Elements that compare Equal are indistinguishable to
\* the ordering, so any of them may come out.
PopCandidates(queue) ==
    {i \in 1..Len(queue) : \A j \in 1..Len(queue) : cmp(queue[i], queue[j]) # "Less"}

\* ----------------------------------------------------------- EPR register

EprRegisterDefault == [next_pair_id |-> 0, records |-> <<>>]

\* EprRegister::new_epr_pair: returns the pre-increment counter.
new_epr_pair(register, master, slave, now_ns, fid) ==
    [pair_id  |-> register.next_pair_id,
     register |-> [next_pair_id |-> register.next_pair_id + 1,
                   records |-> Append(register.records,
                       [pair_id |-> register.next_pair_id,
                        master_node_id |-> master, slave_node_id |-> slave,
                        birth_time_ns |-> now_ns, initial_fidelity |-> fid])]]

\* -------------------------------------------------------------- Node / NIC

NodeNew(id) == [id |-> id, nics |-> <<>>]

\* Node::add_nic: a second NIC for the same peer is a fatal error.
add_nic(node, peer, role, num_qubits) ==
    IF peer \in DOMAIN node.nics
    THEN [ok |-> FALSE, node |-> node]
    ELSE [ok |-> TRUE,
          node |-> [node EXCEPT !.nics = node.nics @@
              (peer :> [role |-> role, num_qubits |-> num_qubits,
                        established_pairs |-> <<>>])]]

\* Node::epr_established: locate the NIC by peer, check the role, record.
epr_established(node, now_ns, peer, role, pair_id) ==
    IF peer \notin DOMAIN node.nics THEN [ok |-> FALSE, node |-> node]
    ELSE IF node.nics[peer].role # role THEN [ok |-> FALSE, node |-> node]
    ELSE [ok |-> TRUE,
          node |-> [node EXCEPT !.nics[peer].established_pairs =
                        Append(@, <<now_ns, pair_id>>)]]

\* ---------------------------------------------------------- EPR generator

\* EprGeneratorHandle with the two ends of the link swapped in the event.
EprGeneratorHandle_SwappedEnds(generator, sample) ==
    [event     |-> EventNew(sample,
                       EprGeneratedData(generator.tx_node_id,
                                        generator.slave_node_id,
                                        generator.master_node_id)),
     generator |-> [generator EXCEPT !.rng.draws = @ + 1]]

\* EprGenerator::handle: draw the next inter-arrival time (sample) from the
\* generator's own RNG and return the next EprGenerated event.
EprGeneratorHandle(generator, sample) ==
    [event     |-> EventNew(sample,
                       EprGeneratedData(generator.tx_node_id,
                                        generator.master_node_id,
                                        generator.slave_node_id)),
     generator |-> [generator EXCEPT !.rng.draws = @ + 1]]

\* ---------------------------------------------------------------- Network

\* One logical edge: source (master), target (slave) and its weight.
Link(master, slave, tx, memory_qubits) ==
    [source |-> master, target |-> slave,
     weight |-> [tx |-> tx, memory_qubits |-> memory_qubits, capacity |-> 1]]

\* NewEdge with the slave's NIC registered with the master's role.
NewEdge_SlaveAsMaster(acc, cnt, edge, init_seed) ==
    LET m  == add_nic(acc.nodes[edge.source], edge.target, "Master",
                      edge.weight.memory_qubits)
        n1 == [acc.nodes EXCEPT ![edge.source] = m.node]
        s  == add_nic(n1[edge.target], edge.source, "Master",
                      edge.weight.memory_qubits)
        n2 == [n1 EXCEPT ![edge.target] = s.node]
        tx == edge.weight.tx
        g  == [tx_node_id |-> tx, master_node_id |-> edge.source,
               slave_node_id |-> edge.target, rv |-> edge.weight.capacity,
               rng |-> [seed |-> init_seed + cnt, draws |-> 0]]
        old == IF tx \in DOMAIN acc.epr_generators
               THEN acc.epr_generators[tx] ELSE <<>>
    IN  IF ~acc.ok \/ ~m.ok \/ ~s.ok THEN [acc EXCEPT !.ok = FALSE]
        ELSE [ok |-> TRUE, nodes |-> n2,
              epr_generators |->
                  [k \in DOMAIN acc.epr_generators \cup {tx} |->
                      IF k = tx THEN Append(old, g) ELSE acc.epr_generators[k]]]

\* NewEdge with the generator stored under the master's id instead of the
\* tx's.
NewEdge_KeyedByMaster(acc, cnt, edge, init_seed) ==
    LET m  == add_nic(acc.nodes[edge.source], edge.target, "Master",
                      edge.weight.memory_qubits)
        n1 == [acc.nodes EXCEPT ![edge.source] = m.node]
        s  == add_nic(n1[edge.target], edge.source, "Slave",
                      edge.weight.memory_qubits)
        n2 == [n1 EXCEPT ![edge.target] = s.node]
        key == edge.source
        g  == [tx_node_id |-> edge.weight.tx, master_node_id |-> edge.source,
               slave_node_id |-> edge.target, rv |-> edge.weight.capacity,
               rng |-> [seed |-> init_seed + cnt, draws |-> 0]]
        old == IF key \in DOMAIN acc.epr_generators
               THEN acc.epr_generators[key] ELSE <<>>
    IN  IF ~acc.ok \/ ~m.ok \/ ~s.ok THEN [acc EXCEPT !.ok = FALSE]
        ELSE [ok |-> TRUE, nodes |-> n2,
              epr_generators |->
                  [k \in DOMAIN acc.epr_generators \cup {key} |->
                      IF k = key THEN Append(old, g) ELSE acc.epr_generators[k]]]

\* The body of the loop over the logical edges in Network::new, for the
\* edge of ordinal cnt (from 0).
NewEdge(acc, cnt, edge, init_seed) ==
    IF ~acc.ok THEN acc
    ELSE IF edge.source \notin DOMAIN acc.nodes \/ edge.target \notin DOMAIN acc.nodes
    THEN [acc EXCEPT !.ok = FALSE]
    ELSE
    LET m  == add_nic(acc.nodes[edge.source], edge.target, "Master",
                      edge.weight.memory_qubits)
        n1 == [acc.nodes EXCEPT ![edge.source] = m.node]
        s  == add_nic(n1[edge.target], edge.source, "Slave",
                      edge.weight.memory_qubits)
        n2 == [n1 EXCEPT ![edge.target] = s.node]
        tx == edge.weight.tx
        g  == [tx_node_id |-> tx, master_node_id |-> edge.source,
               slave_node_id |-> edge.target, rv |-> edge.weight.capacity,
               rng |-> [seed |-> init_seed + cnt, draws |-> 0]]
        old == IF tx \in DOMAIN acc.epr_generators
               THEN acc.epr_generators[tx] ELSE <<>>
    IN  IF ~m.ok \/ ~s.ok THEN [acc EXCEPT !.ok = FALSE]
        ELSE [ok |-> TRUE, nodes |-> n2,
              epr_generators |->
                  [k \in DOMAIN acc.epr_generators \cup {tx} |->
                      IF k = tx THEN Append(old, g) ELSE acc.epr_generators[k]]]

RECURSIVE NewEdges(_, _, _, _)
NewEdges(acc, cnt, edges, init_seed) ==
    IF cnt = Len(edges) THEN acc
    ELSE NewEdges(NewEdge(acc, cnt, edges[cnt + 1], init_seed), cnt + 1, edges, init_seed)

\* Network::new: one node per logical node, then the NICs and the
\* generators edge by edge.  ok is FALSE when the construction aborts.
NetworkNew(lt, init_seed) ==
    NewEdges([ok |-> TRUE,
              nodes |-> [id \in 0..(lt.node_count - 1) |-> NodeNew(id)],
              epr_generators |-> <<>>],
             0, lt.edges, init_seed)

\* The first generator under key tx whose (master, slave) matches; 0 if none.
FindGenerator(generators, data) ==
    LET hits == {i \in 1..Len(generators) :
                    /\ generators[i].master_node_id = data.master_node_id
                    /\ generators[i].slave_node_id = data.slave_node_id}
    IN  IF hits = {} THEN 0 ELSE CHOOSE i \in hits : \A j \in hits : i <= j

\* Notifications with the slave's notification addressed like the master's
\* (this and peer not swapped).
NotificationsSameAddress(data, epr_pair_id) ==
    << EventNew(0, EprNotifiedData(data.master_node_id, data.slave_node_id,
                                   "Master", epr_pair_id)),
       EventNew(0, EprNotifiedData(data.master_node_id, data.slave_node_id,
                                   "Slave", epr_pair_id)) >>

\* The two notifications pushed when the fidelity query succeeds.
Notifications(data, epr_pair_id) ==
    << EventNew(0, EprNotifiedData(data.master_node_id, data.slave_node_id,
                                   "Master", epr_pair_id)),
       EventNew(0, EprNotifiedData(data.slave_node_id, data.master_node_id,
                                   "Slave", epr_pair_id)) >>

\* handle_epr_generated with the re-arming push moved inside the branch
\* taken when the fidelity query succeeds.
handle_epr_generated_RearmOnSuccess(gens, register, graph, now_ns, data, sample) ==
    LET i    == FindGenerator(gens[data.tx_node_id], data)
        fid  == fidelity(graph, data.tx_node_id, data.master_node_id,
                         data.slave_node_id)
        pair == new_epr_pair(register, data.master_node_id,
                             data.slave_node_id, now_ns, fid.val)
        step == EprGeneratorHandle(gens[data.tx_node_id][i], sample)
    IN  [ok |-> TRUE,
         events |-> IF fid.ok
                    THEN Notifications(data, pair.pair_id) \o <<step.event>>
                    ELSE <<>>,
         minted |-> IF fid.ok THEN <<pair.pair_id>> ELSE <<>>,
         epr_generators |->
             IF fid.ok THEN [gens EXCEPT ![data.tx_node_id][i] = step.generator]
             ELSE gens,
         epr_register |-> IF fid.ok THEN pair.register ELSE register]

\* handle_epr_generated with the pair registered before the fidelity is
\* examined, so that a failed query still consumes an identifier.
handle_epr_generated_MintFirst(gens, register, graph, now_ns, data, sample) ==
    LET i    == FindGenerator(gens[data.tx_node_id], data)
        fid  == fidelity(graph, data.tx_node_id, data.master_node_id,
                         data.slave_node_id)
        pair == new_epr_pair(register, data.master_node_id,
                             data.slave_node_id, now_ns, fid.val)
        step == EprGeneratorHandle(gens[data.tx_node_id][i], sample)
    IN  [ok |-> TRUE,
         events |-> (IF fid.ok THEN Notifications(data, pair.pair_id) ELSE <<>>)
                    \o <<step.event>>,
         minted |-> IF fid.ok THEN <<pair.pair_id>> ELSE <<>>,
         epr_generators |-> [gens EXCEPT ![data.tx_node_id][i] = step.generator],
         epr_register |-> pair.register]

\* handle_epr_generated with the register's update lost (the pair is minted
\* on a copy of the register).
handle_epr_generated_RegisterCopy(gens, register, graph, now_ns, data, sample) ==
    LET i    == FindGenerator(gens[data.tx_node_id], data)
        fid  == fidelity(graph, data.tx_node_id, data.master_node_id,
                         data.slave_node_id)
        pair == new_epr_pair(register, data.master_node_id,
                             data.slave_node_id, now_ns, fid.val)
        step == EprGeneratorHandle(gens[data.tx_node_id][i], sample)
    IN  [ok |-> TRUE,
         events |-> (IF fid.ok THEN Notifications(data, pair.pair_id) ELSE <<>>)
                    \o <<step.event>>,
         minted |-> IF fid.ok THEN <<pair.pair_id>> ELSE <<>>,
         epr_generators |-> [gens EXCEPT ![data.tx_node_id][i] = step.generator],
         epr_register |-> register]

\* handle_epr_generated drawing from every generator stored under the key.
handle_epr_generated_StepAllUnderKey(gens, register, graph, now_ns, data, sample) ==
    LET aborted == [ok |-> FALSE, events |-> <<>>, minted |-> <<>>,
                    epr_generators |-> gens, epr_register |-> register]
    IN
    IF data.tx_node_id \notin DOMAIN gens THEN aborted
    ELSE
    LET i == FindGenerator(gens[data.tx_node_id], data)
    IN  IF i = 0 THEN aborted
        ELSE
        LET fid  == fidelity(graph, data.tx_node_id, data.master_node_id,
                             data.slave_node_id)
            pair == new_epr_pair(register, data.master_node_id,
                                 data.slave_node_id, now_ns, fid.val)
            step == EprGeneratorHandle(gens[data.tx_node_id][i], sample)
        IN  [ok |-> TRUE,
             events |-> (IF fid.ok THEN Notifications(data, pair.pair_id) ELSE <<>>)
                        \o <<step.event>>,
             minted |-> IF fid.ok THEN <<pair.pair_id>> ELSE <<>>,
             epr_generators |->
                 [gens EXCEPT ![data.tx_node_id] =
                     [j \in 1..Len(@) |->
                         EprGeneratorHandle(@[j], sample).generator]],
             epr_register |-> IF fid.ok THEN pair.register ELSE register]

\* Network::handle_epr_generated.  sample is the value the generator's RNG
\* yields.  ok is FALSE when the handler aborts (unknown tx, no generator);
\* minted holds the identifier new_epr_pair returned, if it was called.
handle_epr_generated(gens, register, graph, now_ns, data, sample) ==
    LET aborted == [ok |-> FALSE, events |-> <<>>, minted |-> <<>>,
                    epr_generators |-> gens, epr_register |-> register]
    IN
    IF data.tx_node_id \notin DOMAIN gens THEN aborted
    ELSE
    LET i == FindGenerator(gens[data.tx_node_id], data)
    IN  IF i = 0 THEN aborted
        ELSE
        LET fid  == fidelity(graph, data.tx_node_id, data.master_node_id,
                             data.slave_node_id)
            pair == new_epr_pair(register, data.master_node_id,
                                 data.slave_node_id, now_ns, fid.val)
            step == EprGeneratorHandle(gens[data.tx_node_id][i], sample)
        IN  [ok |-> TRUE,
             events |-> (IF fid.ok THEN Notifications(data, pair.pair_id) ELSE <<>>)
                        \o <<step.event>>,
             minted |-> IF fid.ok THEN <<pair.pair_id>> ELSE <<>>,
             epr_generators |->
                 [gens EXCEPT ![data.tx_node_id][i] = step.generator],
             epr_register |-> IF fid.ok THEN pair.register ELSE register]

\* handle_epr_notified with the pair recorded at the peer instead.
handle_epr_notified_AtPeer(ns, now_ns, data) ==
    IF ~(data.this_node_id < Cardinality(DOMAIN ns)) \/
       ~(data.peer_node_id < Cardinality(DOMAIN ns))
    THEN [ok |-> FALSE, events |-> <<>>, nodes |-> ns]
    ELSE
    LET r == epr_established(ns[data.peer_node_id], now_ns, data.this_node_id,
                             IF data.role = "Master" THEN "Slave" ELSE "Master",
                             data.epr_pair_id)
    IN  [ok |-> r.ok, events |-> <<>>,
         nodes |-> [ns EXCEPT ![data.peer_node_id] = r.node]]

\* Network::handle_epr_notified.  ok is FALSE when an assertion fails.
handle_epr_notified(ns, now_ns, data) ==
    IF ~(data.this_node_id < Cardinality(DOMAIN ns)) \/
       ~(data.peer_node_id < Cardinality(DOMAIN ns))
    THEN [ok |-> FALSE, events |-> <<>>, nodes |-> ns]
    ELSE
    LET r == epr_established(ns[data.this_node_id], now_ns, data.peer_node_id,
                             data.role, data.epr_pair_id)
    IN  [ok |-> r.ok, events |-> <<>>,
         nodes |-> [ns EXCEPT ![data.this_node_id] = r.node]]

\* handle with the events of another kind dropped in silence.
handle_DropOthers(ns, gens, register, graph, event, sample) ==
    IF event.event_type.kind = "EprGenerated"
    THEN LET r == handle_epr_generated(gens, register, graph, event.time,
                                       event.event_type, sample)
         IN  [ok |-> r.ok, events |-> r.events, minted |-> r.minted, nodes |-> ns,
              epr_generators |-> r.epr_generators, epr_register |-> r.epr_register]
    ELSE IF event.event_type.kind = "EprNotified"
    THEN LET r == handle_epr_notified(ns, event.time, event.event_type)
         IN  [ok |-> r.ok, events |-> r.events, minted |-> <<>>, nodes |-> r.nodes,
              epr_generators |-> gens, epr_register |-> register]
    ELSE [ok |-> TRUE, events |-> <<>>, minted |-> <<>>, nodes |-> ns,
          epr_generators |-> gens, epr_register |-> register]

\* EventHandler::handle for Network: the match on the event's kind.  ok is
\* FALSE when the handler aborts, in one of the two arms or in the last one.
handle(ns, gens, register, graph, event, sample) ==
    IF event.event_type.kind = "EprGenerated"
    THEN LET r == handle_epr_generated(gens, register, graph, event.time,
                                       event.event_type, sample)
         IN  [ok |-> r.ok, events |-> r.events, minted |-> r.minted, nodes |-> ns,
              epr_generators |-> r.epr_generators, epr_register |-> r.epr_register]
    ELSE IF event.event_type.kind = "EprNotified"
    THEN LET r == handle_epr_notified(ns, event.time, event.event_type)
         IN  [ok |-> r.ok, events |-> r.events, minted |-> <<>>, nodes |-> r.nodes,
              epr_generators |-> gens, epr_register |-> register]
    ELSE [ok |-> FALSE, events |-> <<>>, minted |-> <<>>, nodes |-> ns,
          epr_generators |-> gens, epr_register |-> register]

\* All generators of the network, in no particular order.
AllGenerators(gens) == UNION {Range(gens[tx]) : tx \in DOMAIN gens}

\* initial with the events built but never pushed: the generators step,
\* nothing is returned.
initial_NothingPushed(gens, order, samples) ==
    [events |-> <<>>,
     epr_generators |->
         [tx \in DOMAIN gens |->
             [i \in 1..Len(gens[tx]) |->
                 EprGeneratorHandle(gens[tx][i],
                     samples[gens[tx][i].rng.seed]).generator]]]

\* initial with one event per key of the map: only the first generator of
\* each tx is asked for an event, though all of them step.
initial_FirstOfEachKey(gens, order, samples) ==
    [events |-> [k \in 1..Len(order) |->
                    EprGeneratorHandle(gens[order[k]][1],
                        samples[gens[order[k]][1].rng.seed]).event],
     epr_generators |->
         [tx \in DOMAIN gens |->
             [i \in 1..Len(gens[tx]) |->
                 EprGeneratorHandle(gens[tx][i],
                     samples[gens[tx][i].rng.seed]).generator]]]

\* Network::initial: one step of every generator, the keys of the map
\* visited in the order given; samples maps an RNG seed to the value drawn.
initial(gens, order, samples) ==
    [events |-> Flatten([k \in 1..Len(order) |->
                    [i \in 1..Len(gens[order[k]]) |->
                        EprGeneratorHandle(gens[order[k]][i],
                            samples[gens[order[k]][i].rng.seed]).event]]),
     epr_generators |->
         [tx \in DOMAIN gens |->
             [i \in 1..Len(gens[tx]) |->
                 EprGeneratorHandle(gens[tx][i],
                     samples[gens[tx][i].rng.seed]).generator]]]

\* ----------------------------------------------------------------- inputs

\* The seed handed to Network::new.
InitSeed == 42

\* The logical edges the topologies of the runs are made of, as
\* (master, slave, tx, memory_qubits): links served by satellite 0 as an
\* endpoint (in both orientations) or as a third node, a link served by
\* satellite 4, a link whose tx is a ground station, and a self-loop.
LinkMenu ==
    {Link(e[1], e[2], e[3], e[4]) :
        e \in {<<0, 1, 0, 1>>, <<1, 0, 0, 2>>, <<1, 2, 0, 3>>, <<4, 5, 4, 2>>,
               <<0, 2, 1, 1>>, <<1, 1, 0, 1>>}}

\* The first edge of the two-edge topologies.
FirstLink == Link(0, 1, 0, 1)

\* Logical topologies over NumNodes nodes: one edge of the menu, or
\* FirstLink followed by one edge of the menu (the same node pair again, a
\* second link under the same tx, a link under another tx, ...).
LogicalTopologies ==
    {[node_count |-> NumNodes, edges |-> es] :
        es \in {<<l>> : l \in LinkMenu} \cup {<<FirstLink, l>> : l \in LinkMenu}}

\* ------------------------------------------------------------------ state

VARIABLES
    logical_topology,   \* the input of Network::new
    physical_topology,  \* Network.physical_topology
    nodes,              \* Network.nodes
    epr_generators,     \* Network.epr_generators, keyed by tx node id
    epr_register,       \* Network.epr_register
    events,             \* the engine's queue, in insertion order
    now,                \* time of the last event popped
    handled,            \* the last event popped
    returned,           \* what the handler returned for it (relative times)
    generated,          \* number of EprGenerated events handled
    issued,             \* the pair ids new_epr_pair returned, in issue order
    pc,                 \* new, constructed, running, done, panic
    call,               \* the last query of the physical topology
    runs,               \* two runs of the same inputs, side by side
    rng_table,          \* the samples the seeded generators have produced
    tie_policy          \* how the queue of the two runs orders equal times

vars == <<logical_topology, physical_topology, nodes, epr_generators,
          epr_register, events, now, handled, returned, generated, issued, pc,
          call, runs, rng_table, tie_policy>>

\* The state of the network and of the engine of the single run.
run_vars == <<logical_topology, nodes, epr_generators, epr_register, events,
              now, handled, returned, generated, issued>>

\* What a single run never touches.
side_vars == <<call, runs, rng_table, tie_policy>>

NoEvent == [time |-> 0, event_type |-> [kind |-> "None"]]

NoCall == [op |-> "none", args |-> <<>>, result |-> Ok(0)]

\* The single run is the only thing going on.
SideIdle ==
    /\ call = NoCall
    /\ runs = <<>>
    /\ rng_table = <<>>
    /\ tie_policy = "none"

Init ==
    /\ logical_topology \in LogicalTopologies
    /\ physical_topology = TestTopology
    /\ nodes = <<>>
    /\ epr_generators = <<>>
    /\ epr_register = EprRegisterDefault
    /\ events = <<>>
    /\ now = 0
    /\ handled = NoEvent
    /\ returned = <<>>
    /\ generated = 0
    /\ issued = <<>>
    /\ pc = "new"
    /\ SideIdle

\* Network::new on the chosen logical topology.
New ==
    /\ pc = "new"
    /\ LET n == NetworkNew(logical_topology, InitSeed)
       IN  /\ nodes' = n.nodes
           /\ epr_generators' = n.epr_generators
           /\ pc' = IF n.ok THEN "constructed" ELSE "panic"
    /\ epr_register' = EprRegisterDefault
    /\ UNCHANGED <<logical_topology, physical_topology, events, now, handled,
                   returned, generated, issued>>
    /\ UNCHANGED side_vars

\* Insert the events a handler returned: each at now + its relative time.
Insert(queue, evs, now_ns) ==
    queue \o [k \in 1..Len(evs) |-> advance(evs[k], now_ns)]

\* schedule_absolute
schedule_absolute(queue, kind, time_ns) ==
    Append(queue, [time |-> time_ns, event_type |-> kind])

\* Bootstrap of a run: ExperimentEnd is scheduled at until_ns and the
\* events of Network::initial are inserted at their own times.
Start ==
    /\ pc = "constructed"
    /\ \E order \in Permutations_(DOMAIN epr_generators) :
       \E samples \in [{g.rng.seed : g \in AllGenerators(epr_generators)}
                          -> 0..MaxSample] :
          LET r == initial(epr_generators, order, samples)
          IN  /\ events' = Insert(schedule_absolute(<<>>, ExperimentEnd, UntilNs),
                                  r.events, 0)
              /\ epr_generators' = r.epr_generators
              /\ returned' = r.events
    /\ pc' = "running"
    /\ UNCHANGED <<logical_topology, physical_topology, nodes, epr_register,
                   now, handled, generated, issued>>
    /\ UNCHANGED side_vars

\* The engine pops position i and the event is one the run goes on with.
Dispatchable(i) ==
    /\ pc = "running"
    /\ i \in PopCandidates(events)
    /\ ~(events[i].time > UntilNs)

\* Engine loop, EprGenerated popped: Network::handle -> handle_epr_generated.
DispatchEprGenerated ==
    \E i \in 1..Len(events) :
        /\ Dispatchable(i)
        /\ events[i].event_type.kind = "EprGenerated"
        /\ generated < MaxGenerated
        /\ \E sample \in 0..MaxSample :
            LET ev == events[i]
                r  == handle_epr_generated(epr_generators, epr_register,
                          physical_topology, ev.time, ev.event_type, sample)
            IN  /\ now' = ev.time
                /\ handled' = ev
                /\ returned' = r.events
                /\ epr_generators' = r.epr_generators
                /\ epr_register' = r.epr_register
                /\ issued' = issued \o r.minted
                /\ events' = Insert(RemoveAt(events, i), r.events, ev.time)
                /\ pc' = IF r.ok THEN "running" ELSE "panic"
        /\ generated' = generated + 1
        /\ UNCHANGED <<logical_topology, physical_topology, nodes>>
        /\ UNCHANGED side_vars

\* Engine loop, EprNotified popped: Network::handle -> handle_epr_notified.
DispatchEprNotified ==
    \E i \in 1..Len(events) :
        /\ Dispatchable(i)
        /\ events[i].event_type.kind = "EprNotified"
        /\ LET ev == events[i]
               r  == handle_epr_notified(nodes, ev.time, ev.event_type)
           IN  /\ now' = ev.time
               /\ handled' = ev
               /\ returned' = r.events
               /\ nodes' = r.nodes
               /\ events' = Insert(RemoveAt(events, i), r.events, ev.time)
               /\ pc' = IF r.ok THEN "running" ELSE "panic"
        /\ UNCHANGED <<logical_topology, physical_topology, epr_generators,
                       epr_register, generated, issued>>
        /\ UNCHANGED side_vars

\* Engine loop: the event popped is ExperimentEnd or lies beyond until_ns.
Stop ==
    \E i \in 1..Len(events) :
        /\ pc = "running"
        /\ i \in PopCandidates(events)
        /\ events[i].time > UntilNs \/ events[i].event_type.kind = "ExperimentEnd"
        /\ now' = events[i].time
        /\ handled' = events[i]
        /\ returned' = <<>>
        /\ events' = RemoveAt(events, i)
        /\ pc' = "done"
        /\ UNCHANGED <<logical_topology, physical_topology, nodes,
                       epr_generators, epr_register, generated, issued>>
        /\ UNCHANGED side_vars

Next == New \/ Start \/ DispatchEprGenerated \/ DispatchEprNotified \/ Stop

Spec == Init /\ [][Next]_vars

\* ------------------------------------------------- the run, with fairness

\* The generators with the position of each RNG stream counted modulo
\* RngPeriod: a draw always changes the RNG's state, and the state is finite.
WrapDraws(gens) ==
    [tx \in DOMAIN gens |->
        [i \in 1..Len(gens[tx]) |->
            [gens[tx][i] EXCEPT !.rng.draws = @ % RngPeriod]]]

\* DispatchEprGenerated for runs of any length: the handled events are not
\* counted, and only the pairs the register may mint are bounded.
DispatchEprGeneratedUncounted ==
    \E i \in 1..Len(events) :
        /\ Dispatchable(i)
        /\ events[i].event_type.kind = "EprGenerated"
        /\ \E sample \in 0..MaxSample :
            LET ev == events[i]
                r  == handle_epr_generated(epr_generators, epr_register,
                          physical_topology, ev.time, ev.event_type, sample)
            IN  /\ r.epr_register.next_pair_id <= MaxGenerated
                /\ now' = ev.time
                /\ handled' = ev
                /\ returned' = r.events
                /\ epr_generators' = WrapDraws(r.epr_generators)
                /\ epr_register' = r.epr_register
                /\ issued' = issued \o r.minted
                /\ events' = Insert(RemoveAt(events, i), r.events, ev.time)
                /\ pc' = IF r.ok THEN "running" ELSE "panic"
        /\ UNCHANGED <<logical_topology, physical_topology, nodes, generated>>
        /\ UNCHANGED side_vars

NextFair ==
    New \/ Start \/ DispatchEprGeneratedUncounted \/ DispatchEprNotified \/ Stop

\* The engine's loop is sequential and never waits: whenever it can pop an
\* event it does.
SpecFair == Init /\ [][NextFair]_vars /\ WF_vars(NextFair)

\* ---------------------------------------------- two runs of the same input

\* The position a pop returns when equal times are ordered by a fixed rule
\* of the queue: the first or the last inserted of the earliest events.
PopIndex(queue, policy) ==
    LET cands == PopCandidates(queue)
    IN  IF policy = "fifo" THEN CHOOSE i \in cands : \A j \in cands : i <= j
        ELSE CHOOSE i \in cands : \A j \in cands : i >= j

\* The state a run starts in: the network built by Network::new, the queue
\* holding ExperimentEnd and the events of Network::initial, which visited
\* the keys of the generators' map in the given order.
BootRun(order, samples) ==
    LET r == initial(epr_generators, order, samples)
    IN  [events         |-> Insert(schedule_absolute(<<>>, ExperimentEnd, UntilNs),
                                   r.events, 0),
         epr_generators |-> r.epr_generators,
         epr_register   |-> EprRegisterDefault,
         nodes          |-> nodes,
         trace          |-> <<>>,
         generated      |-> 0,
         pc             |-> "running"]

\* The event a run pops next.
NextEvent(run) == run.events[PopIndex(run.events, tie_policy)]

\* Whether the next step of the run draws a sample, and from which RNG
\* stream at which position.
Draws(run) ==
    /\ run.pc = "running"
    /\ NextEvent(run).event_type.kind = "EprGenerated"
    /\ ~(NextEvent(run).time > UntilNs)
    /\ run.generated < MaxGenerated

DrawKey(run) ==
    LET data == NextEvent(run).event_type
        gens == run.epr_generators[data.tx_node_id]
        g    == gens[FindGenerator(gens, data)]
    IN  <<g.rng.seed, g.rng.draws>>

\* One iteration of the engine's loop on a run: pop, stop or dispatch to
\* Network::handle, insert what the handler returned.  The samples come
\* from the table of the seeded streams.
EngineStep(run, table) ==
    IF run.pc # "running" THEN run
    ELSE
    LET i  == PopIndex(run.events, tie_policy)
        ev == run.events[i]
    IN  IF ev.time > UntilNs \/ ev.event_type.kind = "ExperimentEnd"
        THEN [run EXCEPT !.events = RemoveAt(run.events, i), !.pc = "done"]
        ELSE IF ev.event_type.kind = "EprGenerated"
        THEN IF ~(run.generated < MaxGenerated) THEN [run EXCEPT !.pc = "cut"]
             ELSE
             LET r == handle_epr_generated(run.epr_generators, run.epr_register,
                          physical_topology, ev.time, ev.event_type,
                          table[DrawKey(run)])
             IN  [events         |-> Insert(RemoveAt(run.events, i), r.events, ev.time),
                  epr_generators |-> r.epr_generators,
                  epr_register   |-> r.epr_register,
                  nodes          |-> run.nodes,
                  trace          |-> Append(run.trace,
                                        [event |-> ev, minted |-> r.minted]),
                  generated      |-> run.generated + 1,
                  pc             |-> IF r.ok THEN "running" ELSE "panic"]
        ELSE
             LET r == handle_epr_notified(run.nodes, ev.time, ev.event_type)
             IN  [run EXCEPT !.events = Insert(RemoveAt(run.events, i), r.events, ev.time),
                             !.nodes = r.nodes,
                             !.trace = Append(run.trace,
                                          [event |-> ev, minted |-> <<>>]),
                             !.pc = IF r.ok THEN "running" ELSE "panic"]

InitTwoRuns ==
    /\ logical_topology \in LogicalTopologies
    /\ physical_topology = TestTopology
    /\ nodes = <<>>
    /\ epr_generators = <<>>
    /\ epr_register = EprRegisterDefault
    /\ events = <<>>
    /\ now = 0
    /\ handled = NoEvent
    /\ returned = <<>>
    /\ generated = 0
    /\ issued = <<>>
    /\ pc = "new"
    /\ call = NoCall
    /\ runs = <<>>
    /\ rng_table = <<>>
    /\ tie_policy \in {"fifo", "lifo"}

\* Two processes are started on the network Network::new builds from the
\* input: each calls Network::initial, whose map iteration order is its
\* own, while stream `seed` yields the same first sample in both.
StartTwoRuns ==
    /\ pc = "constructed"
    /\ \E order1 \in Permutations_(DOMAIN epr_generators),
          order2 \in Permutations_(DOMAIN epr_generators) :
       \E samples \in [{g.rng.seed : g \in AllGenerators(epr_generators)}
                          -> 0..MaxSample] :
          /\ runs' = <<BootRun(order1, samples), BootRun(order2, samples)>>
          /\ rng_table' = [k \in {<<sd, 0>> : sd \in DOMAIN samples} |-> samples[k[1]]]
    /\ pc' = "two_runs"
    /\ UNCHANGED <<physical_topology, run_vars, call, tie_policy>>

\* Both runs make their next step; a sample drawn for the first time is
\* free, one drawn before by the other run is the same.
StepTwoRuns ==
    /\ pc = "two_runs"
    /\ \E k \in 1..2 : runs[k].pc = "running"
    /\ LET need == {DrawKey(runs[k]) : k \in {j \in 1..2 : Draws(runs[j])}}
                      \ DOMAIN rng_table
       IN  \E fresh \in [need -> 0..MaxSample] :
              /\ rng_table' = fresh @@ rng_table
              /\ runs' = [k \in 1..2 |-> EngineStep(runs[k], fresh @@ rng_table)]
    /\ UNCHANGED <<physical_topology, run_vars, pc, call, tie_policy>>

NextTwoRuns == New \/ StartTwoRuns \/ StepTwoRuns

SpecTwoRuns == InitTwoRuns /\ [][NextTwoRuns]_vars

\* ------------------------------------------ the handler called on its own

\* The node ids an EprNotified handed to the network may name: the two
\* ends of FirstLink and the first id out of range.
NotifiedIds == {FirstLink.source, FirstLink.target, NumNodes}

\* The number of pairs the nodes have recorded.
TotalEstablished(ns) ==
    Cardinality(UNION {UNION {
        {<<n, p, k>> : k \in 1..Len(ns[n].nics[p].established_pairs)} :
            p \in DOMAIN ns[n].nics} : n \in DOMAIN ns})

\* Network::handle on an EprNotified event of any content, on a network
\* just built or one that has recorded pairs already.
HandleEprNotified ==
    /\ pc = "constructed"
    /\ TotalEstablished(nodes) < MaxGenerated
    /\ \E this \in NotifiedIds, peer \in NotifiedIds, role \in {"Master", "Slave"},
          pair_id \in 0..(MaxGenerated - 1), time \in {0, UntilNs} :
          LET ev == [time |-> time,
                     event_type |-> EprNotifiedData(this, peer, role, pair_id)]
              r  == handle_epr_notified(nodes, ev.time, ev.event_type)
          IN  /\ now' = ev.time
              /\ handled' = ev
              /\ returned' = r.events
              /\ nodes' = r.nodes
              /\ pc' = IF r.ok THEN "constructed" ELSE "panic"
    /\ UNCHANGED <<logical_topology, physical_topology, epr_generators,
                   epr_register, events, generated, issued>>
    /\ UNCHANGED side_vars

NextNotified == New \/ HandleEprNotified

SpecNotified == Init /\ [][NextNotified]_vars

\* --------------------------------------------- the handler, any event kind

\* The percentages a Progress event handed to the network may carry.
Percents == {0, 100}

\* The event kinds a caller of Network::handle may hand over: the three
\* that belong to the engine, an EprGenerated naming any link of the menu
\* (a generator of the network or not), an EprNotified of any content.
EventTypes ==
    {WarmupPeriodEnd, ExperimentEnd}
    \cup {Progress(p) : p \in Percents}
    \cup {EprGeneratedData(l.weight.tx, l.source, l.target) : l \in LinkMenu}
    \cup {EprNotifiedData(this, peer, role, 0) :
             this \in NotifiedIds, peer \in NotifiedIds, role \in {"Master", "Slave"}}

\* Network::handle called at time until_ns on an event of any kind, on a
\* network just built or one that has handled events already (MaxGenerated
\* pairs minted or recorded at most).
Handle ==
    /\ pc = "constructed"
    /\ \E event_type \in EventTypes, sample \in 0..MaxSample :
          LET ev == [time |-> UntilNs, event_type |-> event_type]
          IN  \E r \in {handle(nodes, epr_generators, epr_register,
                                physical_topology, ev, sample)} :
                /\ Len(issued) + Len(r.minted) + TotalEstablished(r.nodes)
                      <= MaxGenerated
                /\ now' = ev.time
                /\ handled' = ev
                /\ returned' = r.events
                /\ nodes' = r.nodes
                /\ epr_generators' = WrapDraws(r.epr_generators)
                /\ epr_register' = r.epr_register
                /\ issued' = issued \o r.minted
                /\ pc' = IF r.ok THEN "constructed" ELSE "panic"
    /\ UNCHANGED <<logical_topology, physical_topology, events, generated>>
    /\ UNCHANGED side_vars

NextHandle == New \/ Handle

SpecHandle == Init /\ [][NextHandle]_vars

\* ------------------------------------------- queries of a physical topology

\* The distance of every edge the queried graphs may have.
EdgeDistances ==
    ({0, 1} :> 1 @@ {1, 2} :> 1 @@ {2, 3} :> 1 @@
     {0, 3} :> 4 @@ {0, 2} :> 3 @@ {1, 3} :> 0)

\* Node weights: a transmitting satellite, a ground station with a
\* transmitter, a satellite and a ground station without transmitters.
MixedNodes ==
    [node_type    |-> (0 :> "SAT" @@ 1 :> "OGS" @@ 2 :> "SAT" @@ 3 :> "OGS"),
     transmitters |-> (0 :> 1 @@ 1 :> 1 @@ 2 :> 0 @@ 3 :> 0)]

\* Node weights: three satellites, one of them without transmitters, and a
\* ground station with a transmitter.
SatelliteNodes ==
    [node_type    |-> (0 :> "SAT" @@ 1 :> "SAT" @@ 2 :> "SAT" @@ 3 :> "OGS"),
     transmitters |-> (0 :> 1 @@ 1 :> 1 @@ 2 :> 0 @@ 3 :> 1)]

\* PhysicalTopology::from_distances followed by the node weights' update:
\* nothing is cached yet.
from_distances(edges, weights) ==
    [node_type    |-> weights.node_type,
     transmitters |-> weights.transmitters,
     edges        |-> edges,
     distance     |-> [e \in edges |-> EdgeDistances[e]],
     paths        |-> <<>>]

\* Every graph over the edges of EdgeDistances, under either node weights.
PhysicalTopologies ==
    {from_distances(es, w) : es \in SUBSET DOMAIN EdgeDistances,
                             w \in {MixedNodes, SatelliteNodes}}

\* The node ids a query may name.
QueryIds == 0..MaxNodeId

\* No network is built and no run is going on.
RunIdle ==
    /\ logical_topology = [node_count |-> 0, edges |-> <<>>]
    /\ nodes = <<>>
    /\ epr_generators = <<>>
    /\ epr_register = EprRegisterDefault
    /\ events = <<>>
    /\ now = 0
    /\ handled = NoEvent
    /\ returned = <<>>
    /\ generated = 0
    /\ issued = <<>>
    /\ runs = <<>>
    /\ rng_table = <<>>
    /\ tie_policy = "none"

InitFidelity ==
    /\ physical_topology \in PhysicalTopologies
    /\ call = NoCall
    /\ pc = "topology"
    /\ RunIdle

\* The graphs whose distances are queried: nodes 0 and 1 are linked, 0 and 2
\* are not, and any of the other four edges may be there.
InitDistance ==
    /\ physical_topology \in
           {from_distances(es \cup {{0, 1}}, MixedNodes) :
               es \in SUBSET (DOMAIN EdgeDistances \ {{0, 1}, {0, 2}})}
    /\ call = NoCall
    /\ pc = "topology"
    /\ RunIdle

\* A call of PhysicalTopology::distance.
CallDistance ==
    /\ pc = "topology"
    /\ \E u \in QueryIds, v \in QueryIds :
          \E r \in {distance(physical_topology, u, v)} :
              /\ physical_topology' = [physical_topology EXCEPT !.paths = r.paths]
              /\ call' = [op |-> "distance", args |-> <<u, v>>, result |-> r.result]
    /\ UNCHANGED <<run_vars, pc, runs, rng_table, tie_policy>>

\* A call of PhysicalTopology::fidelity.
CallFidelity ==
    /\ pc = "topology"
    /\ \E tx \in QueryIds, u \in QueryIds, v \in QueryIds :
          call' = [op |-> "fidelity", args |-> <<tx, u, v>>,
                   result |-> fidelity(physical_topology, tx, u, v)]
    /\ UNCHANGED <<physical_topology, run_vars, pc, runs, rng_table, tie_policy>>

\* A call of fidelity on a topology that has answered distance queries:
\* the link from a transmitter whose paths are cached to any node.
CallFidelityCached ==
    /\ pc = "topology"
    /\ \E tx \in DOMAIN physical_topology.paths, v \in QueryIds :
          call' = [op |-> "fidelity", args |-> <<tx, tx, v>>,
                   result |-> fidelity(physical_topology, tx, tx, v)]
    /\ UNCHANGED <<physical_topology, run_vars, pc, runs, rng_table, tie_policy>>

NextDistance == CallDistance \/ CallFidelityCached

SpecFidelity == InitFidelity /\ [][CallFidelity]_vars

SpecDistance == InitDistance /\ [][NextDistance]_vars

\* ------------------------------------------------------------ properties

IsKind(event, kind) == event.event_type.kind = kind

\* The fidelity the topology answers for the link an EprGenerated names.
FidelityOf(data) ==
    fidelity(physical_topology, data.tx_node_id, data.master_node_id,
             data.slave_node_id)

\* The last step was the handling of an EprGenerated event.
JustGenerated == pc = "running" /\ IsKind(handled, "EprGenerated")

CountIn(queue, event_type) ==
    Cardinality({i \in 1..Len(queue) : queue[i].event_type = event_type})

NotifiedIn(queue) == {i \in 1..Len(queue) : IsKind(queue[i], "EprNotified")}

\* C1 (symmetric notification): whenever an EprGenerated{tx, m, s} has just
\* been handled at time now and fidelity(tx, m, s) succeeded, the handler
\* returned exactly two EprNotified events, {this=m, peer=s, Master} and
\* {this=s, peer=m, Slave}, both with the pair id the register just minted
\* and both with relative delay 0, and both sit in the queue at time now.
C1_SymmetricNotification ==
    (JustGenerated /\ FidelityOf(handled.event_type).ok) =>
        LET d  == handled.event_type
            id == epr_register.next_pair_id - 1
            nm == EprNotifiedData(d.master_node_id, d.slave_node_id, "Master", id)
            ns == EprNotifiedData(d.slave_node_id, d.master_node_id, "Slave", id)
        IN  /\ epr_register.next_pair_id > 0
            /\ issued[Len(issued)] = id
            /\ Cardinality(NotifiedIn(returned)) = 2
            /\ {returned[i] : i \in NotifiedIn(returned)} =
                   {[time |-> 0, event_type |-> nm], [time |-> 0, event_type |-> ns]}
            /\ CountIn(events, nm) = 1
            /\ CountIn(events, ns) = 1
            /\ \A i \in 1..Len(events) :
                   events[i].event_type \in {nm, ns} => events[i].time = now

\* A generation served by a third node (tx is neither endpoint) succeeded.
C1_Witness ==
    /\ JustGenerated
    /\ FidelityOf(handled.event_type).ok
    /\ handled.event_type.tx_node_id \notin
           {handled.event_type.master_node_id, handled.event_type.slave_node_id}
    /\ Len(returned) = 3

\* C2 (self-rearming): after an EprGenerated event of a generator has been
\* handled, whether or not the fidelity query succeeded, the handler has
\* returned exactly one EprGenerated event, for the same (tx, master,
\* slave), and the queue holds exactly one EprGenerated event for that
\* link; every generator of a running network has exactly one pending.
C2_SelfRearming ==
    /\ JustGenerated =>
        /\ Cardinality({i \in 1..Len(returned) : IsKind(returned[i], "EprGenerated")}) = 1
        /\ CountIn(returned, handled.event_type) = 1
        /\ CountIn(events, handled.event_type) = 1
    /\ pc = "running" =>
        \A g \in AllGenerators(epr_generators) :
            CountIn(events, EprGeneratedData(g.tx_node_id, g.master_node_id,
                                             g.slave_node_id)) = 1

\* Two links share one tx, and a generation whose fidelity query failed has
\* just been handled as the second generation of the run.
C2_Witness ==
    /\ JustGenerated
    /\ ~FidelityOf(handled.event_type).ok
    /\ generated = 2
    /\ Len(logical_topology.edges) = 2

\* Two generators live under the same tx key and one has just been handled.
C2_WitnessSharedTx ==
    /\ JustGenerated
    /\ Len(epr_generators[handled.event_type.tx_node_id]) = 2

\* C3 (generation without fidelity): a step that handles EprGenerated{tx,
\* m, s} while fidelity(tx, m, s) is an error leaves the register (counter
\* and records) and every node unchanged, returns no EprNotified event and
\* returns exactly one event, the re-arming EprGenerated of the same link,
\* and the run goes on.
C3_GenerationWithoutFidelity ==
    [][(generated' = generated + 1 /\ ~FidelityOf(handled'.event_type).ok) =>
            /\ epr_register' = epr_register
            /\ nodes' = nodes
            /\ issued' = issued
            /\ Len(returned') = 1
            /\ returned'[1].event_type = handled'.event_type
            /\ CountIn(events', handled'.event_type) = 1
            /\ pc' = "running"]_vars

\* A failed generation has been handled after a pair had been minted for
\* another link, so the register had something to lose.
C3_Witness ==
    /\ JustGenerated
    /\ ~FidelityOf(handled.event_type).ok
    /\ epr_register.next_pair_id = 1

\* C4 (identifier uniqueness): the pair identifiers the register minted are,
\* in issue order, 0, 1, 2, ...: the k-th successful generation (from 0,
\* across all links) received pair_id k, so they are pairwise distinct and
\* strictly increasing; the register's records and counter agree.
C4_IdentifierUniqueness ==
    /\ \A k \in 1..Len(issued) : issued[k] = k - 1
    /\ Len(epr_register.records) = Len(issued)
    /\ \A k \in 1..Len(epr_register.records) :
           epr_register.records[k].pair_id = issued[k]
    /\ epr_register.next_pair_id = Len(issued)

\* Two pairs have been minted, for two different links.
C4_Witness ==
    /\ Len(issued) = 2
    /\ epr_register.records[1].slave_node_id # epr_register.records[2].slave_node_id

\* The network was constructed (Network::new returned).
Constructed == pc \in {"constructed", "running", "done"}

\* How many times node `this` recorded pair_id on its NIC for `peer`.
Deliveries(this, peer, pair_id) ==
    IF peer \notin DOMAIN nodes[this].nics THEN 0
    ELSE LET log == nodes[this].nics[peer].established_pairs
         IN  Cardinality({j \in 1..Len(log) : log[j][2] = pair_id})

\* C5 (end-to-end pair flow), as claimed: when the run has terminated, every
\* pair the register minted has been recorded exactly once at the link's
\* master (on its Master NIC) and exactly once at the link's slave (on its
\* Slave NIC).
C5_EndToEndPairFlow ==
    pc = "done" =>
        \A k \in 1..Len(epr_register.records) :
            LET r == epr_register.records[k]
            IN  /\ Deliveries(r.master_node_id, r.slave_node_id, r.pair_id) = 1
                /\ nodes[r.master_node_id].nics[r.slave_node_id].role = "Master"
                /\ Deliveries(r.slave_node_id, r.master_node_id, r.pair_id) = 1
                /\ nodes[r.slave_node_id].nics[r.master_node_id].role = "Slave"

\* The single link of a one-edge topology, as the EprGenerated data.
OnlyLink ==
    LET e == logical_topology.edges[1]
    IN  EprGeneratedData(e.weight.tx, e.source, e.target)

\* C6 (pending generation at termination): when a run with a single link
\* whose fidelity is defined has terminated, the number of EprGenerated
\* events handled equals the number of pair identifiers issued, and the
\* queue holds exactly one EprGenerated event, which is for that link.
C6_PendingGenerationAtTermination ==
    (pc = "done" /\ Len(logical_topology.edges) = 1 /\ FidelityOf(OnlyLink).ok) =>
        /\ generated = Len(issued)
        /\ generated = epr_register.next_pair_id
        /\ Cardinality({i \in 1..Len(events) : IsKind(events[i], "EprGenerated")}) = 1
        /\ CountIn(events, OnlyLink) = 1

\* A single-link run with a fidelity ended after two generations.
C6_Witness ==
    /\ pc = "done"
    /\ Len(logical_topology.edges) = 1
    /\ FidelityOf(OnlyLink).ok
    /\ generated = 2

\* C7 (role consistency): once Network::new has succeeded, and after any
\* number of handled events, for every logical link (master a, slave b)
\* node a holds a NIC keyed by b with role Master, node b holds a NIC keyed
\* by a with role Slave, both with the link's memory_qubits; and the nodes
\* hold no other NIC.
C7_RoleConsistency ==
    Constructed =>
        /\ \A k \in 1..Len(logical_topology.edges) :
            LET e == logical_topology.edges[k]
            IN  /\ e.target \in DOMAIN nodes[e.source].nics
                /\ nodes[e.source].nics[e.target].role = "Master"
                /\ nodes[e.source].nics[e.target].num_qubits = e.weight.memory_qubits
                /\ e.source \in DOMAIN nodes[e.target].nics
                /\ nodes[e.target].nics[e.source].role = "Slave"
                /\ nodes[e.target].nics[e.source].num_qubits = e.weight.memory_qubits
        /\ \A a \in DOMAIN nodes : \A b \in DOMAIN nodes[a].nics :
            \E k \in 1..Len(logical_topology.edges) :
                {logical_topology.edges[k].source, logical_topology.edges[k].target} = {a, b}

\* Two links were constructed and a notification has been recorded on a
\* Slave NIC during the run.
C7_Witness ==
    /\ pc = "running"
    /\ Len(logical_topology.edges) = 2
    /\ \E a \in DOMAIN nodes : \E b \in DOMAIN nodes[a].nics :
           /\ nodes[a].nics[b].role = "Slave"
           /\ nodes[a].nics[b].established_pairs # <<>>

\* C8 (network construction): a constructed network has exactly one node
\* per node of the logical topology, node i carrying id i for i in
\* 0..n-1, and exactly one generator per logical edge: the edge of ordinal
\* k is the only generator with seed init_seed + k, carries that edge's
\* (tx, master, slave), and is stored under the key equal to its own
\* tx_node_id.
C8_NetworkConstruction ==
    Constructed =>
        /\ DOMAIN nodes = 0..(logical_topology.node_count - 1)
        /\ \A i \in DOMAIN nodes : nodes[i].id = i
        /\ \A tx \in DOMAIN epr_generators :
            /\ epr_generators[tx] # <<>>
            /\ \A i \in 1..Len(epr_generators[tx]) :
                   epr_generators[tx][i].tx_node_id = tx
        /\ \A k \in 1..Len(logical_topology.edges) :
            LET e == logical_topology.edges[k]
                hits == {<<tx, i>> \in UNION {{<<t, j>> : j \in 1..Len(epr_generators[t])} :
                                        t \in DOMAIN epr_generators} :
                            epr_generators[tx][i].rng.seed = InitSeed + k - 1}
            IN  /\ Cardinality(hits) = 1
                /\ \A h \in hits :
                    /\ h[1] = e.weight.tx
                    /\ epr_generators[h[1]][h[2]].master_node_id = e.source
                    /\ epr_generators[h[1]][h[2]].slave_node_id = e.target
        /\ Cardinality(UNION {{<<t, j>> : j \in 1..Len(epr_generators[t])} :
                                 t \in DOMAIN epr_generators})
               = Len(logical_topology.edges)

\* A network whose two generators live under one tx key, that tx being
\* neither endpoint of the second link.
C8_Witness ==
    /\ pc = "constructed"
    /\ \E tx \in DOMAIN epr_generators :
        /\ Len(epr_generators[tx]) = 2
        /\ epr_generators[tx][2].master_node_id # tx
        /\ epr_generators[tx][2].slave_node_id # tx

\* C9 (time ordering): no event in the queue is earlier than the last event
\* popped, so events are popped (and dispatched) in non-decreasing time and
\* each pop yields an event of minimal time; and every event the last
\* handler returned sits in the queue at now plus its relative time.
C9_TimeOrdering ==
    /\ \A i \in 1..Len(events) : events[i].time >= now
    /\ (pc = "running" /\ handled # NoEvent) =>
           \A k \in 1..Len(returned) :
               /\ advance(returned[k], now).time >= handled.time
               /\ \E i \in 1..Len(events) : events[i] = advance(returned[k], now)

\* At time 1 a handler returned an event with a positive delay while an
\* event of time 1 is still queued.
C9_Witness ==
    /\ JustGenerated
    /\ now = 1
    /\ \E k \in 1..Len(returned) : returned[k].time > 0
    /\ \E i \in 1..Len(events) : events[i].time = now
    /\ \E i \in 1..Len(events) : events[i].time > now

\* The position FIFO tie-breaking would pop: the oldest of the earliest.
FifoFront(queue) ==
    CHOOSE i \in PopCandidates(queue) : \A j \in PopCandidates(queue) : i <= j

\* C10 (FIFO tie-breaking), as claimed: every pop of the running engine
\* yields, among the events of the earliest time, the one inserted first.
C10_FifoTieBreaking ==
    [][pc = "running" => handled' = events[FifoFront(events)]]_vars

\* C10, the particular case claimed: no EprGenerated is popped while a
\* notification inserted before it at the same time is still queued.
C10_NotificationsFirst ==
    [][(pc = "running" /\ IsKind(handled', "EprGenerated")) =>
           \A i \in 1..Len(events) : events[i] = handled' =>
               ~\E j \in 1..(i - 1) :
                   IsKind(events[j], "EprNotified") /\ events[j].time = handled'.time]_vars

\* ------------------------------------- properties of the physical topology

\* The nodes of the queried graph.
GraphNodes == DOMAIN physical_topology.node_type

Known(n) == n \in GraphNodes

\* The least total edge distance over the walks from u to v of at most
\* `hops` edges; negative when there is none.  node_count - 1 edges reach
\* every simple path.
RECURSIVE ShortestWithin(_, _, _, _)
ShortestWithin(graph, u, v, hops) ==
    IF u = v THEN 0
    ELSE IF hops = 0 THEN -1
    ELSE LET through == {Plus(ShortestWithin(graph, u, x, hops - 1),
                              graph.distance[{x, v}]) :
                            x \in {y \in DOMAIN graph.node_type : {y, v} \in graph.edges}}
             finite  == {d \in through : ~IsInfinite(d)}
         IN  IF finite = {} THEN -1
             ELSE CHOOSE d \in finite : \A e \in finite : d <= e

ShortestWalk(graph, u, v) == ShortestWithin(graph, u, v, node_count(graph) - 1)

Connected(graph, u, v) == ~IsInfinite(ShortestWalk(graph, u, v))

DistanceCalled(u, v) == call.op = "distance" /\ call.args = <<u, v>>

\* C12: for every valid node u, distance(u, u) succeeds and returns 0,
\* whether the paths of u are cached or not.
C12_DistanceIdentity ==
    \A u \in GraphNodes : DistanceCalled(u, u) => call.result = Ok(0)

Admissible(graph, tx, u, v) ==
    /\ tx \in DOMAIN graph.node_type
    /\ u \in DOMAIN graph.node_type
    /\ v \in DOMAIN graph.node_type
    /\ graph.node_type[tx] = "SAT"
    /\ graph.transmitters[tx] > 0
    /\ u # v
    /\ (u # tx) => {tx, u} \in graph.edges
    /\ (v # tx) => {tx, v} \in graph.edges

\* The fidelity table.
FidelityTable(graph, tx, u, v) ==
    CASE tx = u -> IF graph.node_type[v] = "SAT" THEN "f_o" ELSE "f_g"
      [] tx = v -> IF graph.node_type[u] = "SAT" THEN "f_o" ELSE "f_g"
      [] OTHER  -> IF {graph.node_type[u], graph.node_type[v]} = {"SAT"} THEN "f_oo"
                   ELSE IF {graph.node_type[u], graph.node_type[v]} = {"OGS"} THEN "f_gg"
                   ELSE "f_og"

FidelityCalled(tx, u, v) == call.op = "fidelity" /\ call.args = <<tx, u, v>>

\* C14: for every admissible (tx, u, v) fidelity returns the entry of the
\* table for the transmitter's position and the receivers' types, and the
\* same value for (tx, v, u).
C14_FidelityTableCoverage ==
    \A tx \in QueryIds, u \in QueryIds, v \in QueryIds :
        (FidelityCalled(tx, u, v) /\ Admissible(physical_topology, tx, u, v)) =>
            /\ call.result = Ok(FidelityTable(physical_topology, tx, u, v))
            /\ fidelity(physical_topology, tx, v, u) = call.result

\* A satellite and a ground station received from a third node.
C14_Witness ==
    \E tx \in GraphNodes, u \in GraphNodes, v \in GraphNodes :
        /\ FidelityCalled(tx, u, v)
        /\ tx \notin {u, v}
        /\ physical_topology.node_type[u] = "OGS"
        /\ physical_topology.node_type[v] = "SAT"
        /\ call.result = Ok("f_og")

\* C15: fidelity returns an error whenever a node is unknown, tx has no
\* transmitter, tx is a ground station, u = v, or an edge from tx to a
\* receiver other than itself is missing.
C15_FidelityFailureModes ==
    \A tx \in QueryIds, u \in QueryIds, v \in QueryIds :
        FidelityCalled(tx, u, v) =>
            ((\/ ~Known(tx) \/ ~Known(u) \/ ~Known(v)
              \/ physical_topology.transmitters[tx] = 0
              \/ physical_topology.node_type[tx] = "OGS"
              \/ u = v
              \/ (tx = u /\ {tx, v} \notin physical_topology.edges)
              \/ (tx = v /\ {tx, u} \notin physical_topology.edges)
              \/ (tx \notin {u, v} /\ ({tx, u} \notin physical_topology.edges
                                      \/ {tx, v} \notin physical_topology.edges)))
             => ~call.result.ok)

\* A ground station that has a transmitter and both edges was asked for.
C15_Witness ==
    \E tx \in GraphNodes, u \in GraphNodes, v \in GraphNodes :
        /\ FidelityCalled(tx, u, v)
        /\ physical_topology.node_type[tx] = "OGS"
        /\ physical_topology.transmitters[tx] > 0
        /\ tx \notin {u, v} /\ u # v
        /\ {tx, u} \in physical_topology.edges
        /\ {tx, v} \in physical_topology.edges
        /\ ~call.result.ok

\* The cache of paths, keyed by source.
Paths == physical_topology.paths

\* C19: distance(u, v) fails, adding no cache entry, when u or v is not a
\* node, in either position and also for one unknown id in both; it fails
\* as disconnected when u and v are valid, distinct and v is not reachable
\* from u.
C19_DistanceErrors ==
    [][call'.op = "distance" =>
          LET u == call'.args[1]
              v == call'.args[2]
          IN  /\ (~Known(u) \/ ~Known(v)) =>
                     (~call'.result.ok /\ Paths' = Paths)
              /\ (Known(u) /\ Known(v) /\ u # v
                    /\ ~Connected(physical_topology, u, v)) =>
                     call'.result = Err("NoConnection")]_vars

\* A valid source not cached yet was asked for its distance to an unknown
\* node, on a topology that has cached other paths.
C19_Witness ==
    \E u \in GraphNodes, v \in QueryIds \ GraphNodes :
        /\ DistanceCalled(u, v)
        /\ ~call.result.ok
        /\ u \notin DOMAIN Paths
        /\ DOMAIN Paths # {}

\* The cached paths of source u are the all-destinations result: the least
\* distance to every other node reachable from u, and no predecessor for
\* the nodes that are not.
AllDestinations(graph, u, paths) ==
    \A w \in DOMAIN graph.node_type \ {u} :
        IF Connected(graph, u, w)
        THEN /\ paths.predecessors[w] >= 0
             /\ paths.distances[w] = ShortestWalk(graph, u, w)
        ELSE paths.predecessors[w] < 0

\* No call removes or overwrites a cache entry, and fidelity leaves the
\* cache alone.
CacheKept ==
    /\ \A k \in DOMAIN Paths : k \in DOMAIN Paths' /\ Paths'[k] = Paths[k]
    /\ call'.op = "fidelity" => Paths' = Paths

\* A call distance(u, v) for a source whose paths are cached leaves the
\* cache unchanged and answers as the computation from scratch does.
CachedCall(u, v) ==
    /\ Paths' = Paths
    /\ call'.result =
           distance([physical_topology EXCEPT !.paths = <<>>], u, v).result

\* A call that caches the paths of u: one more entry, keyed by u.
FirstCall(u) ==
    /\ DOMAIN Paths' = DOMAIN Paths \cup {u}
    /\ AllDestinations(physical_topology, u, Paths'[u])

\* C20: the first distance(u, v) call for a valid source u adds exactly
\* one cache entry, keyed by u and holding the all-destinations result;
\* every later distance(u, *) call leaves the cache unchanged and returns
\* what an uncached computation returns; no operation removes or
\* overwrites a cache entry; fidelity never touches the cache.
C20_LazyPathMemoisation ==
    [][/\ (call'.op = "distance" /\ Known(call'.args[1])) =>
              IF call'.args[1] \in DOMAIN Paths
              THEN CachedCall(call'.args[1], call'.args[2])
              ELSE FirstCall(call'.args[1])
       /\ CacheKept]_vars

\* C20, amended: the first distance(u, v) call with u and v both valid adds
\* exactly one cache entry, keyed by u and holding the all-destinations
\* result, and a call naming an unknown node adds none; every distance(u, *)
\* call for a cached source leaves the cache unchanged and returns what an
\* uncached computation returns; no operation removes or overwrites a cache
\* entry; fidelity never touches the cache.
C20_LazyPathMemoisationValidTarget ==
    [][/\ (call'.op = "distance" /\ Known(call'.args[1])) =>
              IF call'.args[1] \in DOMAIN Paths
              THEN CachedCall(call'.args[1], call'.args[2])
              ELSE IF Known(call'.args[2])
              THEN FirstCall(call'.args[1])
              ELSE Paths' = Paths
       /\ CacheKept]_vars

\* Two sources are cached and the last call was answered from the cache of
\* one of them, after a failed call had named it with an unknown target.
C20_Witness ==
    \E u \in GraphNodes, v \in GraphNodes :
        /\ DistanceCalled(u, v)
        /\ call.result.ok
        /\ Cardinality(DOMAIN Paths) = 2
        /\ u \in DOMAIN Paths

\* ------------------------------------------------ properties of the seeding

\* Network::initial has been called and its events inserted; nothing has
\* been dispatched yet.
Seeded == pc = "running" /\ handled = NoEvent

\* The EprGenerated event of the k-th logical link.
LinkEvent(k) ==
    LET e == logical_topology.edges[k]
    IN  EprGeneratedData(e.weight.tx, e.source, e.target)

\* C18: Network::initial returns exactly one EprGenerated event per
\* generator, hence one per logical link and carrying that link's
\* (tx, master, slave), and nothing else; before the first dispatch the
\* queue holds exactly one pending EprGenerated per link.
C18_Seeding ==
    Seeded =>
        /\ Len(returned) = Len(logical_topology.edges)
        /\ Len(returned) = Cardinality(AllGenerators(epr_generators))
        /\ \A i \in 1..Len(returned) : IsKind(returned[i], "EprGenerated")
        /\ \A k \in 1..Len(logical_topology.edges) :
              /\ CountIn(returned, LinkEvent(k)) = 1
              /\ CountIn(events, LinkEvent(k)) = 1
        /\ Cardinality({i \in 1..Len(events) : IsKind(events[i], "EprGenerated")})
               = Len(logical_topology.edges)

\* A network of two links under one tx key has been seeded.
C18_Witness ==
    /\ Seeded
    /\ Len(logical_topology.edges) = 2
    /\ \E tx \in DOMAIN epr_generators : Len(epr_generators[tx]) = 2

\* ------------------------------------- properties of the notified handler

\* Node `this` holds a NIC for `peer` with the role the event names.
NicFor(this, peer, role) ==
    /\ peer \in DOMAIN nodes[this].nics
    /\ nodes[this].nics[peer].role = role

\* C17: handling EprNotified{this, peer, role, pair_id} at time now with
\* both ids within the nodes delivers exactly one
\* epr_established(now, peer, role, pair_id) to node `this` and to no other
\* node, returns no event and changes neither the register nor any
\* generator; with `this` or `peer` out of range the handler aborts before
\* any node is modified.
C17_EprNotifiedHandling ==
    [][(pc = "constructed" /\ IsKind(handled', "EprNotified")) =>
          LET d == handled'.event_type
          IN  /\ returned' = <<>>
              /\ epr_register' = epr_register
              /\ epr_generators' = epr_generators
              /\ (d.this_node_id \in DOMAIN nodes /\ d.peer_node_id \in DOMAIN nodes) =>
                    /\ \A n \in DOMAIN nodes \ {d.this_node_id} : nodes'[n] = nodes[n]
                    /\ IF NicFor(d.this_node_id, d.peer_node_id, d.role)
                       THEN /\ pc' = "constructed"
                            /\ nodes'[d.this_node_id] =
                                   [nodes[d.this_node_id] EXCEPT
                                       !.nics[d.peer_node_id].established_pairs =
                                           Append(@, <<now', d.epr_pair_id>>)]
                       ELSE nodes' = nodes /\ pc' = "panic"
              /\ (d.this_node_id \notin DOMAIN nodes \/ d.peer_node_id \notin DOMAIN nodes) =>
                    (pc' = "panic" /\ nodes' = nodes)]_vars

\* A node that had recorded a pair was notified of another one, at time
\* until_ns.
C17_Witness ==
    /\ pc = "constructed"
    /\ IsKind(handled, "EprNotified")
    /\ Len(nodes[handled.event_type.this_node_id]
              .nics[handled.event_type.peer_node_id].established_pairs) = 2
    /\ now = UntilNs

\* An event naming a peer out of range was refused by a network whose
\* nodes had recorded a pair.
C17_WitnessOutOfRange ==
    /\ pc = "panic"
    /\ IsKind(handled, "EprNotified")
    /\ handled.event_type.this_node_id \in DOMAIN nodes
    /\ handled.event_type.peer_node_id \notin DOMAIN nodes
    /\ TotalEstablished(nodes) > 0

\* ---------------------------------------------------------- termination

\* C16: every run with a scheduled ExperimentEnd and a finite until_ns
\* eventually stops: ExperimentEnd is dequeued or an event later than
\* until_ns is popped (or the run has aborted), even though every handled
\* EprGenerated re-arms its generator with a delay that may be 0 ns.  Runs
\* that have used up the pairs the register may mint are not held against
\* the claim.
C16_Termination ==
    <>(pc \in {"done", "panic"} \/ epr_register.next_pair_id = MaxGenerated)

\* ------------------------------------------------------------ determinism

\* The pair ids run k minted for the n-th generation of each link, as
\* triples (EprGenerated event, n, ids).
Generations(k) ==
    LET t == runs[k].trace
    IN  {<<t[i].event, Cardinality({j \in 1..i : t[j].event = t[i].event}),
           t[i].minted>> : i \in 1..Len(t)}

\* C11: two runs with identical logical topology, physical topology and
\* init_seed dispatch the same sequence of events and assign the same pair
\* id to the same (link, time) generation, whatever the order in which
\* Network::initial enumerates the generators of the map and however equal
\* times are ordered.
C11_DeterministicUnderSeed ==
    pc = "two_runs" =>
        /\ \A i \in 1..Len(runs[1].trace) :
              i <= Len(runs[2].trace) => runs[1].trace[i] = runs[2].trace[i]
        /\ \A g1 \in Generations(1), g2 \in Generations(2) :
              (g1[1] = g2[1] /\ g1[2] = g2[2]) => g1[3] = g2[3]

\* The same, for networks whose generators live under a single tx key, so
\* that Network::initial has one order only to enumerate them in.
C11_DeterministicSingleKey ==
    Cardinality(DOMAIN epr_generators) = 1 => C11_DeterministicUnderSeed

\* ------------------------------------------------------- no fatal state

\* C21: in a run started from the events of initial() on a constructed
\* network no step aborts: every EprGenerated{tx, m, s} dispatched finds a
\* generator under key tx with (master, slave) = (m, s), and every
\* EprNotified dispatched names a `this` and a `peer` below the number of
\* nodes and the role of the NIC that node `this` holds for `peer`.
C21_NoFatalState ==
    [][(pc \in {"constructed", "running"}) =>
          /\ pc' # "panic"
          /\ (pc = "running" /\ pc' = "running") =>
                LET d == handled'.event_type
                IN  /\ IsKind(handled', "EprGenerated") =>
                          /\ d.tx_node_id \in DOMAIN epr_generators
                          /\ FindGenerator(epr_generators[d.tx_node_id], d) # 0
                    /\ IsKind(handled', "EprNotified") =>
                          /\ d.this_node_id \in 0..(Cardinality(DOMAIN nodes) - 1)
                          /\ d.peer_node_id \in 0..(Cardinality(DOMAIN nodes) - 1)
                          /\ NicFor(d.this_node_id, d.peer_node_id, d.role)
      ]_vars

\* A run of a network of two links has handled EprGenerated events of both
\* generators and the notifications of a pair, the last one at the slave.
C21_Witness ==
    /\ pc = "running"
    /\ generated = MaxGenerated
    /\ Len(logical_topology.edges) = 2
    /\ \A tx \in DOMAIN epr_generators : \A i \in 1..Len(epr_generators[tx]) :
          epr_generators[tx][i].rng.draws >= 2
    /\ TotalEstablished(nodes) >= 2
    /\ IsKind(handled, "EprNotified")
    /\ handled.event_type.role = "Slave"

\* --------------------------------------------------- generator isolation

\* The positions (key, index) of the generators of a map.
Positions(gens) ==
    UNION {{<<tx, i>> : i \in 1..Len(gens[tx])} : tx \in DOMAIN gens}

\* The (tx, master, slave) of the generator at a position.
Triple(gens, pos) ==
    LET g == gens[pos[1]][pos[2]]
    IN  <<g.tx_node_id, g.master_node_id, g.slave_node_id>>

\* No two generators share their (tx, master, slave).
Unambiguous(gens) ==
    \A p \in Positions(gens), q \in Positions(gens) :
        Triple(gens, p) = Triple(gens, q) => p = q

\* C22: handling EprGenerated{tx, m, s} advances the RNG of exactly one
\* generator, the one with that (tx, master, slave), and leaves every other
\* generator (those under the same tx key included), every node's NICs and
\* the set of generators as they were; and no two generators of a
\* constructed network share their (tx, master, slave).
C22_GeneratorIsolation ==
    [][/\ Constructed' => Unambiguous(epr_generators')
       /\ (pc = "running" /\ pc' # "done" /\ IsKind(handled', "EprGenerated")) =>
             LET d    == handled'.event_type
                 hits == {p \in Positions(epr_generators) :
                             Triple(epr_generators, p) =
                                 <<d.tx_node_id, d.master_node_id, d.slave_node_id>>}
             IN  /\ Cardinality(hits) = 1
                 /\ Positions(epr_generators') = Positions(epr_generators)
                 /\ \A p \in Positions(epr_generators) :
                       epr_generators'[p[1]][p[2]] =
                           IF p \in hits
                           THEN [epr_generators[p[1]][p[2]] EXCEPT !.rng.draws = @ + 1]
                           ELSE epr_generators[p[1]][p[2]]
                 /\ \A n \in DOMAIN nodes : nodes'[n].nics = nodes[n].nics
                 /\ DOMAIN nodes' = DOMAIN nodes
      ]_vars

\* An EprGenerated of the second of two generators stored under one tx key
\* has just been handled: that generator has drawn twice, the first once.
C22_Witness ==
    /\ JustGenerated
    /\ LET tx == handled.event_type.tx_node_id
       IN  /\ Len(epr_generators[tx]) = 2
           /\ FindGenerator(epr_generators[tx], handled.event_type) = 2
           /\ epr_generators[tx][2].rng.draws = 2
           /\ epr_generators[tx][1].rng.draws = 1

\* ------------------------------------------------------- event ownership

\* The kinds of event the network does not own.
NotOwned == {"WarmupPeriodEnd", "ExperimentEnd", "Progress"}

\* C23: the Network handler accepts EprGenerated and EprNotified only:
\* handed a WarmupPeriodEnd, an ExperimentEnd or a Progress it aborts,
\* leaving nodes, generators and register as they were and returning no
\* event; an EprGenerated of one of its generators and an EprNotified for a
\* NIC it holds are handled without aborting.
C23_EventOwnership ==
    [][(pc = "constructed") =>
          LET d == handled'.event_type
          IN  /\ (d.kind \in NotOwned) =>
                    /\ pc' = "panic"
                    /\ nodes' = nodes
                    /\ epr_generators' = epr_generators
                    /\ epr_register' = epr_register
                    /\ returned' = <<>>
              /\ (/\ d.kind = "EprGenerated"
                  /\ d.tx_node_id \in DOMAIN epr_generators
                  /\ FindGenerator(epr_generators[d.tx_node_id], d) # 0) =>
                    pc' = "constructed"
              /\ (/\ d.kind = "EprNotified"
                  /\ d.this_node_id \in DOMAIN nodes
                  /\ d.peer_node_id \in DOMAIN nodes
                  /\ NicFor(d.this_node_id, d.peer_node_id, d.role)) =>
                    pc' = "constructed"
      ]_vars

\* A network that had minted a pair and recorded it at a node was handed a
\* Progress event and aborted.
C23_Witness ==
    /\ pc = "panic"
    /\ IsKind(handled, "Progress")
    /\ epr_register.next_pair_id > 0
    /\ TotalEstablished(nodes) > 0

\* The same network was handed a WarmupPeriodEnd.
C23_WitnessWarmup ==
    /\ pc = "panic"
    /\ IsKind(handled, "WarmupPeriodEnd")
    /\ epr_register.next_pair_id > 0
    /\ TotalEstablished(nodes) > 0

====
